---- MODULE Spec2Model ----
(***************************************************************************)
(* Model of qec_complete_system.py: the 3-qubit bit-flip code              *)
(* (ThreeQubitCode), the circuit builders and the logical-error estimator  *)
(* of QECSimulator, and the benchmark sweep benchmark_performance.         *)
(*                                                                         *)
(* Python strings are modelled as sequences of one-character strings, so   *)
(* that str.split and the dictionary lookups are computed, not assumed.    *)
(* Python dictionaries are modelled as sequences of <<key, value>> pairs   *)
(* with distinct keys, in the dictionary's iteration (insertion) order.    *)
(***************************************************************************)
EXTENDS Integers, Sequences, FiniteSets, TLC

VARIABLES
    syndrome,      \* decode_syndrome: the argument
    decoded,       \* decode_syndrome: <<>> before the call, <<value returned>> after
    results,       \* calculate_logical_error_rate: the results dictionary
    expected,      \* calculate_logical_error_rate: expected_logical_state
    measured,      \* calculate_logical_error_rate: measured_logical of each outcome
    rate,          \* calculate_logical_error_rate: <<>> before the call, the quotient after
    call,          \* circuit builders: the call made, [fn |-> "none"] before
    built,         \* circuit builders: [exc, instrs] left by the call
    code,          \* QECSimulator.code of the simulator running the benchmark
    pc,            \* benchmark_performance: position of the sweep
    scenario,      \* benchmark_performance: index of the scenario in progress
    submitted,     \* backend: the error_qubit of every run submitted, in order
    replies,       \* backend: the counts it returned, in order
    failedAt,      \* backend: <<>>, or <<k>> once the run of scenario k has failed
    bench,         \* benchmark_performance: the local dictionary `results`
    returned,      \* benchmark_performance: the value returned to the caller
    raised         \* benchmark_performance: the exception surfaced to the caller

vars == <<syndrome, decoded, results, expected, measured, rate, call, built, code, pc,
          scenario, submitted, replies, failedAt, bench, returned, raised>>

decodeVars == <<syndrome, decoded>>
estVars == <<results, expected, measured, rate>>
circVars == <<call, built>>
benchVars == <<code, pc, scenario, submitted, replies, failedAt, bench, returned, raised>>

-----------------------------------------------------------------------------
(* Bounds *)

MaxSynLen == 4      \* longest syndrome string handed to decode_syndrome
MaxOutcomes == 2    \* most outcomes in one counts dictionary
MaxCount == 2       \* largest count of one outcome

-----------------------------------------------------------------------------
(* Strings *)

SeqsUpTo(A, n) == UNION {[1..k -> A] : k \in 0..n}

Reverse(s) == [k \in 1..Len(s) |-> s[Len(s) + 1 - k]]

-----------------------------------------------------------------------------
(* ThreeQubitCode *)

\* get_stabilizers with the two generators exchanged
GetStabilizersSwapped == << <<"I", "Z", "Z">>, <<"Z", "Z", "I">> >>

GetStabilizers == << <<"Z", "Z", "I">>, <<"I", "Z", "Z">> >>

SyndromeMap ==
    [s \in {<<"0", "0">>, <<"0", "1">>, <<"1", "1">>, <<"1", "0">>} |->
        CASE s = <<"0", "0">> -> -1
          [] s = <<"0", "1">> -> 0
          [] s = <<"1", "1">> -> 1
          [] s = <<"1", "0">> -> 2]

\* decode_syndrome reading the table with the bits the other way round and
\* correcting qubit 0 when the syndrome is not in the table
DecodeSyndromeBigEndian(s) ==
    IF Reverse(s) \in DOMAIN SyndromeMap THEN SyndromeMap[Reverse(s)] ELSE 0

DecodeSyndrome(s) ==
    IF s \in DOMAIN SyndromeMap THEN SyndromeMap[s] ELSE -1

SyndromeAlphabet == {"0", "1", "x"}

InitDecode ==
    /\ syndrome \in SeqsUpTo(SyndromeAlphabet, MaxSynLen)
    /\ decoded = <<>>

DecodeSyndromeCall ==
    /\ decoded = <<>>
    /\ decoded' = <<DecodeSyndrome(syndrome)>>
    /\ UNCHANGED syndrome

-----------------------------------------------------------------------------
(* QECSimulator.calculate_logical_error_rate *)

\* str.split(): the maximal runs of non-blank characters, in order
RECURSIVE SplitAcc(_, _, _)
SplitAcc(s, cur, acc) ==
    IF s = <<>>
    THEN IF cur = <<>> THEN acc ELSE Append(acc, cur)
    ELSE IF Head(s) = " "
         THEN SplitAcc(Tail(s), <<>>, IF cur = <<>> THEN acc ELSE Append(acc, cur))
         ELSE SplitAcc(Tail(s), Append(cur, Head(s)), acc)

Split(s) == SplitAcc(s, <<>>, <<>>)

\* outcome.split()[-1]
DataBits(outcome) == Split(outcome)[Len(Split(outcome))]

ZeroPatterns == {<<"0", "0", "0">>, <<"0", "0", "1">>, <<"0", "1", "0">>, <<"1", "0", "0">>}

OnePatterns == {<<"1", "1", "1">>, <<"1", "1", "0">>, <<"1", "0", "1">>, <<"0", "1", "1">>}

\* the classification accepting only the two codewords
MeasuredLogicalCodewordsOnly(data_bits) ==
    IF data_bits = <<"0", "0", "0">> THEN "0"
    ELSE IF data_bits = <<"1", "1", "1">> THEN "1"
    ELSE "mixed"

\* measured_logical, or "mixed" for the branch that counts the outcome as an error
MeasuredLogical(data_bits) ==
    IF data_bits \in ZeroPatterns THEN "0"
    ELSE IF data_bits \in OnePatterns THEN "1"
    ELSE "mixed"

\* error_shots = count in place of error_shots += count
AccumulateOverwrite(error_shots, count) == count

Accumulate(error_shots, count) == error_shots + count

\* an outcome counted as an error when it classifies to the expected state
IsErrorInverted(data_bits, expected_logical_state) ==
    MeasuredLogical(data_bits) = expected_logical_state

IsError(data_bits, expected_logical_state) ==
    IF MeasuredLogical(data_bits) = "mixed"
    THEN TRUE
    ELSE MeasuredLogical(data_bits) # expected_logical_state

\* the loop over results.items(), from error_shots = acc
RECURSIVE ErrorShots(_, _, _)
ErrorShots(items, expected_logical_state, acc) ==
    IF items = <<>>
    THEN acc
    ELSE LET outcome == Head(items)[1]
             count == Head(items)[2]
         IN  ErrorShots(Tail(items), expected_logical_state,
                        IF IsError(DataBits(outcome), expected_logical_state)
                        THEN Accumulate(acc, count)
                        ELSE acc)

\* sum(results.values())
RECURSIVE TotalShots(_)
TotalShots(items) ==
    IF items = <<>> THEN 0 ELSE Head(items)[2] + TotalShots(Tail(items))

RECURSIVE Gcd(_, _)
Gcd(a, b) == IF b = 0 THEN a ELSE Gcd(b, a % b)

\* The quotient a / b of two non-negative integers, b > 0, as the fraction in
\* lowest terms: two quotients are the same number iff these pairs are equal.
Quotient(a, b) == <<a \div Gcd(a, b), b \div Gcd(a, b)>>

\* the division made without the guard total_shots > 0; <<0, 0>> stands for the
\* ZeroDivisionError of 0 / 0
RateOrZeroNoGuard(error_shots, total_shots) ==
    IF total_shots = 0 THEN <<0, 0>> ELSE Quotient(error_shots, total_shots)

RateOrZero(error_shots, total_shots) ==
    IF total_shots > 0 THEN Quotient(error_shots, total_shots) ELSE <<0, 1>>

CalculateLogicalErrorRate(items, expected_logical_state) ==
    RateOrZero(ErrorShots(items, expected_logical_state, 0), TotalShots(items))

Str(a, b, c) == <<a, b, c>>

ThreeBits == {Str(a, b, c) : a \in {"0", "1"}, b \in {"0", "1"}, c \in {"0", "1"}}

\* The outcome strings handed to the estimator: every 3-bit final register
\* under syndrome 00, both codewords under syndrome 01, and one key whose last
\* segment is not 3 bits long (the final register written first).
Outcomes ==
    {<<"0", "0", " ">> \o d : d \in ThreeBits}
        \cup {<<"0", "1", " ", "0", "0", "0">>, <<"0", "1", " ", "1", "1", "1">>,
              <<"0", "0", "0", " ", "0", "1">>}

\* the dictionaries of at most n outcomes, as item sequences
Dicts(n) ==
    {d \in SeqsUpTo(Outcomes \X (0..MaxCount), n) :
        \A i, j \in 1..Len(d) : i # j => d[i][1] # d[j][1]}

InitEst ==
    /\ results \in Dicts(MaxOutcomes)
    /\ expected \in {"0", "1"}
    /\ measured = <<>>
    /\ rate = <<>>

CalculateLogicalErrorRateCall ==
    /\ rate = <<>>
    /\ measured' = [k \in 1..Len(results) |-> MeasuredLogical(DataBits(results[k][1]))]
    /\ rate' = CalculateLogicalErrorRate(results, expected)
    /\ UNCHANGED <<results, expected>>

-----------------------------------------------------------------------------
(* Circuits.  A circuit is [exc, nq, instrs]: the exception raised while it   *)
(* was being built ("none" if none), its number of qubits, and the            *)
(* instructions appended so far.  An integer qubit argument k names the k-th  *)
(* qubit of the circuit, counting over the registers in the order they were   *)
(* given to QuantumCircuit; q_data[k] and q_ancilla[k] name a register's bit. *)

Instr(op, q, c, cond) == [op |-> op, q |-> q, c |-> c, cond |-> cond]

NewCircuit(nq) == [exc |-> "none", nq |-> nq, instrs |-> <<>>]

Raise(circ, exc) == [circ EXCEPT !.exc = exc]

\* QuantumCircuit.append: once an exception is raised nothing more is appended;
\* an instruction naming the same qubit twice is refused with CircuitError
\* ("duplicate qubit arguments").
AppendInstr(circ, ins) ==
    IF circ.exc # "none" THEN circ
    ELSE IF \E i, j \in 1..Len(ins.q) : i # j /\ ins.q[i] = ins.q[j]
         THEN Raise(circ, "CircuitError")
         ELSE [circ EXCEPT !.instrs = Append(@, ins)]

H(circ, q) == AppendInstr(circ, Instr("h", <<q>>, <<>>, -1))
X(circ, q) == AppendInstr(circ, Instr("x", <<q>>, <<>>, -1))
Cx(circ, c, t) == AppendInstr(circ, Instr("cx", <<c, t>>, <<>>, -1))
Barrier(circ) == AppendInstr(circ, Instr("barrier", <<>>, <<>>, -1))
Measure(circ, q, c) == AppendInstr(circ, Instr("measure", <<q>>, <<c>>, -1))
\* with circuit.if_test((c_syndrome, value)): circuit.x(q)
IfTestX(circ, value, q) == AppendInstr(circ, Instr("if_x", <<q>>, <<>>, value))

\* registers of create_full_qec_circuit and create_encoding_circuit
QLogical(k) == k
QData(k) == 1 + k
QAncilla(k) == 4 + k
CSyndrome(k) == k
CFinal(k) == 2 + k

Codes == {"ThreeQubitCode", "QuantumErrorCorrectionCode", "Subclass"}

\* n_data: set by ThreeQubitCode.__init__; the circuit builders name q_data[0..2]
\* and so need at least 3 of any other code
NData(c) == 3

\* ThreeQubitCode.encode_state
ThreeQubitEncodeState(circ, logical_qubits, data_qubits) ==
    IF Len(logical_qubits) # 1 \/ Len(data_qubits) # 3
    THEN Raise(circ, "ValueError")
    ELSE Cx(Cx(Cx(circ, logical_qubits[1], data_qubits[1]),
               data_qubits[1], data_qubits[2]),
            data_qubits[1], data_qubits[3])

\* self.code.encode_state: the method of the code's class.  "Subclass" is a
\* code class defined outside this module; only the fact that its encode_state
\* returns is modelled, as one instruction "encode" whose effect is unknown.
EncodeState(c, circ, logical_qubits, data_qubits) ==
    IF circ.exc # "none" THEN circ
    ELSE CASE c = "ThreeQubitCode" ->
                ThreeQubitEncodeState(circ, logical_qubits, data_qubits)
           [] c = "QuantumErrorCorrectionCode" -> Raise(circ, "NotImplementedError")
           [] c = "Subclass" -> AppendInstr(circ, Instr("encode", <<>>, <<>>, -1))

\* the preparation of the logical qubit
Prepare(circ, initial_state) ==
    IF initial_state = "plus" THEN H(circ, QLogical(0))
    ELSE IF initial_state = "one" THEN X(circ, QLogical(0))
    ELSE circ

SeqRange(n) == [k \in 1..n |-> k - 1]

CreateEncodingCircuit(c, initial_state) ==
    EncodeState(c, Prepare(NewCircuit(1 + NData(c)), initial_state),
                <<0>>, SeqRange(NData(c)))

\* error_qubit is <<>> for None and <<i>> for the integer i
InjectError(c, circ, error_qubit) ==
    IF error_qubit # <<>> /\ 0 <= error_qubit[1] /\ error_qubit[1] < NData(c)
    THEN Barrier(X(circ, QData(error_qubit[1])))
    ELSE circ

SyndromeMeasurement(circ) ==
    Barrier(
      Measure(
        Measure(
          Cx(Cx(Cx(Cx(circ, QData(0), QAncilla(0)),
                   QData(1), QAncilla(0)),
                QData(1), QAncilla(1)),
             QData(2), QAncilla(1)),
          QAncilla(0), CSyndrome(0)),
        QAncilla(1), CSyndrome(1)))

ConditionalCorrection(circ) ==
    IfTestX(IfTestX(IfTestX(circ, 1, QData(0)), 3, QData(1)), 2, QData(2))

FinalMeasurement(circ) ==
    Measure(Measure(Measure(circ, QData(0), CFinal(0)), QData(1), CFinal(1)),
            QData(2), CFinal(2))

CreateFullQecCircuit(c, initial_state, error_qubit) ==
    FinalMeasurement(
      ConditionalCorrection(
        SyndromeMeasurement(
          InjectError(c,
            Barrier(EncodeState(c, Prepare(NewCircuit(3 + NData(c)), initial_state),
                                <<0>>, <<0, 1, 2>>)),
            error_qubit))))

NoCall ==
    [fn |-> "none", code |-> "none", initial_state |-> "none",
     error_qubit |-> <<>>, logical_qubits |-> <<>>, data_qubits |-> <<>>]

InitialStates == {"plus", "one", "zero"}

ErrorQubits == {<<>>} \cup {<<i>> : i \in -1..3}

InitCircuit ==
    /\ call = NoCall
    /\ built = NewCircuit(0)

\* encode_state on a circuit with the registers of create_full_qec_circuit
EncodeStateCall ==
    /\ call.fn = "none"
    /\ \E c \in Codes, lq \in SeqsUpTo(0..1, 2), dq \in SeqsUpTo(0..3, 3) :
          /\ call' = [NoCall EXCEPT !.fn = "encode_state", !.code = c,
                                    !.logical_qubits = lq, !.data_qubits = dq]
          /\ built' = EncodeState(c, NewCircuit(3 + NData(c)), lq, dq)

CreateEncodingCircuitCall ==
    /\ call.fn = "none"
    /\ \E c \in Codes, st \in InitialStates :
          /\ call' = [NoCall EXCEPT !.fn = "create_encoding_circuit", !.code = c,
                                    !.initial_state = st]
          /\ built' = CreateEncodingCircuit(c, st)

CreateFullQecCircuitCall ==
    /\ call.fn = "none"
    /\ \E c \in Codes, st \in InitialStates, e \in ErrorQubits :
          /\ call' = [NoCall EXCEPT !.fn = "create_full_qec_circuit", !.code = c,
                                    !.initial_state = st, !.error_qubit = e]
          /\ built' = CreateFullQecCircuit(c, st, e)

-----------------------------------------------------------------------------
(* QECSimulator.benchmark_performance and the backend behind run_experiment *)

\* the sweep with the injected-error scenarios in decreasing qubit order
ScenarioErrorQubitDescending(k) == <<<<>>, <<2>>, <<1>>, <<0>>>>[k + 1]

\* error_qubit of the k-th circuit the sweep builds: None, then range(3)
ScenarioErrorQubit(k) == <<<<>>, <<0>>, <<1>>, <<2>>>>[k + 1]

\* the key the k-th scenario's result is stored under
ScenarioLabel(k) ==
    <<"no_error", "error_qubit_0", "error_qubit_1", "error_qubit_2">>[k + 1]

\* the value stored for a scenario
ScenarioResult(counts) ==
    [counts |-> counts, error_rate |-> CalculateLogicalErrorRate(counts, "0")]

\* results[label] = value: a new key is appended, an existing one overwritten
DictSet(d, label, value) ==
    IF \E i \in 1..Len(d) : d[i][1] = label
    THEN [i \in 1..Len(d) |-> IF d[i][1] = label THEN <<label, value>> ELSE d[i]]
    ELSE Append(d, <<label, value>>)

\* the failure of run_experiment swallowed and the results so far returned
BackendErrorSwallowed(b) == [pc |-> "done", raised |-> "none", returned |-> <<b>>]

\* run_experiment is called outside any try: its exception leaves
\* benchmark_performance, and the local dictionary b is dropped
BackendErrorPropagates(b) == [pc |-> "raised", raised |-> "BackendError", returned |-> <<>>]

\* the counts dictionaries the backend is taken to return
BackendCounts ==
    { <<>>,
      << <<(<<"0", "0", " ", "0", "0", "0">>), 2>> >>,
      << <<(<<"0", "0", " ", "1", "1", "1">>), 1>>,
         <<(<<"0", "1", " ", "0", "0", "0">>), 1>> >> }

NScenarios == 4

InitBench ==
    /\ code \in Codes
    /\ pc = "build"
    /\ scenario = 0
    /\ submitted = <<>>
    /\ replies = <<>>
    /\ failedAt = <<>>
    /\ bench = <<>>
    /\ returned = <<>>
    /\ raised = "none"

\* create_full_qec_circuit('plus', error_qubit) and the call of run_experiment
BuildAndSubmit ==
    /\ pc = "build"
    /\ LET circ == CreateFullQecCircuit(code, "plus", ScenarioErrorQubit(scenario))
       IN  IF circ.exc # "none"
           THEN /\ pc' = "raised"
                /\ raised' = circ.exc
                /\ UNCHANGED submitted
           ELSE /\ pc' = "running"
                /\ submitted' = Append(submitted, ScenarioErrorQubit(scenario))
                /\ UNCHANGED raised
    /\ UNCHANGED <<code, scenario, replies, failedAt, bench, returned>>

\* run_experiment returns counts; the scenario's result is stored
BackendReturns ==
    /\ pc = "running"
    /\ \E counts \in BackendCounts :
          /\ replies' = Append(replies, counts)
          /\ bench' = DictSet(bench, ScenarioLabel(scenario), ScenarioResult(counts))
    /\ scenario' = scenario + 1
    /\ pc' = IF scenario + 1 < NScenarios THEN "build" ELSE "return"
    /\ UNCHANGED <<code, submitted, failedAt, returned, raised>>

\* run_experiment raises
BackendFails ==
    /\ pc = "running"
    /\ failedAt' = <<scenario>>
    /\ pc' = BackendErrorPropagates(bench).pc
    /\ raised' = BackendErrorPropagates(bench).raised
    /\ returned' = BackendErrorPropagates(bench).returned
    /\ UNCHANGED <<code, scenario, submitted, replies, bench>>

\* return results
BenchmarkReturns ==
    /\ pc = "return"
    /\ returned' = <<bench>>
    /\ pc' = "done"
    /\ UNCHANGED <<code, scenario, submitted, replies, failedAt, bench, raised>>

-----------------------------------------------------------------------------
(* Specifications: one per component, the other components at rest *)

DecodeIdle == syndrome = <<>> /\ decoded = <<>>
EstIdle == results = <<>> /\ expected = "0" /\ measured = <<>> /\ rate = <<>>
CircuitIdle == InitCircuit
BenchIdle ==
    /\ code = "none" /\ pc = "idle" /\ scenario = 0 /\ submitted = <<>>
    /\ replies = <<>> /\ failedAt = <<>> /\ bench = <<>> /\ returned = <<>>
    /\ raised = "none"

InitD == InitDecode /\ EstIdle /\ CircuitIdle /\ BenchIdle
NextD == DecodeSyndromeCall /\ UNCHANGED <<estVars, circVars, benchVars>>
SpecDecode == InitD /\ [][NextD]_vars

InitE == DecodeIdle /\ InitEst /\ CircuitIdle /\ BenchIdle
NextE == CalculateLogicalErrorRateCall /\ UNCHANGED <<decodeVars, circVars, benchVars>>
SpecEstimate == InitE /\ [][NextE]_vars

InitC == DecodeIdle /\ EstIdle /\ InitCircuit /\ BenchIdle
NextC ==
    \/ EncodeStateCall /\ UNCHANGED <<decodeVars, estVars, benchVars>>
    \/ CreateEncodingCircuitCall /\ UNCHANGED <<decodeVars, estVars, benchVars>>
    \/ CreateFullQecCircuitCall /\ UNCHANGED <<decodeVars, estVars, benchVars>>
SpecCircuit == InitC /\ [][NextC]_vars

InitB == DecodeIdle /\ EstIdle /\ CircuitIdle /\ InitBench
NextB ==
    \/ BuildAndSubmit /\ UNCHANGED <<decodeVars, estVars, circVars>>
    \/ BackendReturns /\ UNCHANGED <<decodeVars, estVars, circVars>>
    \/ BackendFails /\ UNCHANGED <<decodeVars, estVars, circVars>>
    \/ BenchmarkReturns /\ UNCHANGED <<decodeVars, estVars, circVars>>
SpecBench == InitB /\ [][NextB]_vars

-----------------------------------------------------------------------------
(* Execution of a built circuit on one basis branch.  The circuits of this  *)
(* program apply h only to the logical qubit in |0>, and then only x, cx,   *)
(* measurements and conditional x, which map basis states to basis states:  *)
(* in the branch with logical value b every qubit holds a definite bit.     *)

ZeroState == [q |-> [k \in 0..5 |-> 0], c |-> [k \in 0..4 |-> 0], flips |-> {}]

Flip(bit) == 1 - bit

ExecStep(i, st, b) ==
    CASE i.op = "h" -> [st EXCEPT !.q[i.q[1]] = b]
      [] i.op = "x" -> [st EXCEPT !.q[i.q[1]] = Flip(@)]
      [] i.op = "cx" -> [st EXCEPT !.q[i.q[2]] = (@ + st.q[i.q[1]]) % 2]
      [] i.op = "measure" -> [st EXCEPT !.c[i.c[1]] = st.q[i.q[1]]]
      [] i.op = "if_x" ->
            IF st.c[CSyndrome(0)] + 2 * st.c[CSyndrome(1)] = i.cond
            THEN [st EXCEPT !.q[i.q[1]] = Flip(@), !.flips = @ \cup {i.q[1] - QData(0)}]
            ELSE st
      [] OTHER -> st

RECURSIVE Exec(_, _, _)
Exec(instrs, st, b) ==
    IF instrs = <<>> THEN st ELSE Exec(Tail(instrs), ExecStep(Head(instrs), st, b), b)

\* the instructions before the first barrier: preparation and encoding
RECURSIVE UpToBarrier(_)
UpToBarrier(instrs) ==
    IF instrs = <<>> \/ Head(instrs).op = "barrier"
    THEN <<>>
    ELSE <<Head(instrs)>> \o UpToBarrier(Tail(instrs))

Branches(initial_state) ==
    IF initial_state = "plus" THEN {0, 1}
    ELSE IF initial_state = "one" THEN {1}
    ELSE {0}

DataRegister(st) == <<st.q[QData(0)], st.q[QData(1)], st.q[QData(2)]>>

FinalRegister(st) == <<st.c[CFinal(0)], st.c[CFinal(1)], st.c[CFinal(2)]>>

-----------------------------------------------------------------------------
(* Claims *)

S00 == <<"0", "0">>
S01 == <<"0", "1">>
S10 == <<"1", "0">>
S11 == <<"1", "1">>

\* C1: decode_syndrome is a total lookup: it returns -1 (NO_ERROR) for '00', 0 for
\* '01', 1 for '11', 2 for '10', and -1 for every other string, of any length
\* and content.
C1_DecodeTotalLookup ==
    decoded # <<>> =>
        /\ Len(decoded) = 1
        /\ syndrome = S00 => decoded[1] = -1
        /\ syndrome = S01 => decoded[1] = 0
        /\ syndrome = S11 => decoded[1] = 1
        /\ syndrome = S10 => decoded[1] = 2
        /\ syndrome \notin {S00, S01, S11, S10} => decoded[1] = -1

C1_Witness ==
    /\ syndrome = <<"1", "0", "x">>
    /\ decoded = <<-1>>

\* whether a bit-flip of data qubit i flips the k-th stabilizer of get_stabilizers
StabilizerBit(k, i) == IF GetStabilizers[k][i + 1] = "Z" THEN "1" ELSE "0"

\* the syndrome of a flip of qubit i written (Z0Z1-result, Z1Z2-result)
SyndromeWritten(i) == <<StabilizerBit(1, i), StabilizerBit(2, i)>>

\* the same syndrome written (Z1Z2-result, Z0Z1-result)
SyndromeReversed(i) == <<StabilizerBit(2, i), StabilizerBit(1, i)>>

\* C2 as stated: for every data qubit i, the syndrome written in the order
\* (Z0Z1-result, Z1Z2-result) whose set bits are the stabilizers containing
\* qubit i decodes to i, and the all-zero syndrome decodes to NO_ERROR.
C2_TableFromStabilizersAsStated ==
    decoded # <<>> =>
        /\ \A i \in 0..2 : syndrome = SyndromeWritten(i) => decoded[1] = i
        /\ syndrome = S00 => decoded[1] = -1

\* C2 amended: for every data qubit i, the syndrome written in the order
\* (Z1Z2-result, Z0Z1-result) whose set bits are the stabilizers containing
\* qubit i decodes to i, and the all-zero syndrome decodes to NO_ERROR.
C2_TableFromStabilizers ==
    decoded # <<>> =>
        /\ \A i \in 0..2 : syndrome = SyndromeReversed(i) => decoded[1] = i
        /\ syndrome = S00 => decoded[1] = -1

C2_Witness ==
    /\ syndrome = SyndromeReversed(2)
    /\ syndrome = S10
    /\ decoded = <<2>>

\* the part of an outcome string after its blank
AfterSpace(o) ==
    LET i == CHOOSE i \in 1..Len(o) : o[i] = " " IN SubSeq(o, i + 1, Len(o))

Ones(seg) == Cardinality({k \in 1..Len(seg) : seg[k] = "1"})

\* the bit that occurs at least twice among three
MajorityBit(seg) == IF Ones(seg) >= 2 THEN "1" ELSE "0"

\* C3: the classification made by calculate_logical_error_rate of a 3-bit final
\* register is the majority bit; no 3-bit string is left unclassified.
C3_ClassificationIsMajority ==
    rate # <<>> =>
        \A k \in 1..Len(results) :
            Len(AfterSpace(results[k][1])) = 3 =>
                /\ measured[k] = MajorityBit(AfterSpace(results[k][1]))
                /\ measured[k] \in {"0", "1"}

C3_Witness ==
    /\ rate # <<>>
    /\ \E k \in 1..Len(results) :
          /\ AfterSpace(results[k][1]) = <<"0", "1", "1">>
          /\ measured[k] = "1"

\* every key is '<syndrome bits> <3 final data bits>'
WellFormed(items) == \A k \in 1..Len(items) : Len(AfterSpace(items[k][1])) = 3

\* the sum of the counts of the items whose index is in S
RECURSIVE SumIdx(_, _, _)
SumIdx(items, S, k) ==
    IF k = 0 THEN 0
    ELSE (IF k \in S THEN items[k][2] ELSE 0) + SumIdx(items, S, k - 1)

\* the items whose final data bits do not classify to e
Misclassified(items, e) ==
    {k \in 1..Len(items) : MajorityBit(AfterSpace(items[k][1])) # e}

\* r is the number (sum of the misclassified counts) / (sum of all counts)
IsErrorFraction(r, items, e) ==
    /\ Len(r) = 2
    /\ r[2] > 0
    /\ r[1] * SumIdx(items, 1..Len(items), Len(items))
         = SumIdx(items, Misclassified(items, e), Len(items)) * r[2]

\* items with the syndrome segment of the k-th key replaced by f[k]
WithSyndromes(items, f) ==
    [k \in 1..Len(items) |-> <<f[k] \o <<" ">> \o AfterSpace(items[k][1]), items[k][2]>>]

DistinctKeys(items) == \A i, j \in 1..Len(items) : i # j => items[i][1] # items[j][1]

\* C4: for counts over well-formed outcomes with a positive total, the rate is
\* (sum of the counts whose final bits do not classify to expected) / (sum of
\* all counts); it lies in [0,1], is 0 when every outcome classifies to expected
\* and 1 when none does, and does not depend on the syndrome segments.
C4_RateIsErrorFraction ==
    (rate # <<>> /\ WellFormed(results)
        /\ SumIdx(results, 1..Len(results), Len(results)) > 0) =>
        /\ IsErrorFraction(rate, results, expected)
        /\ 0 <= rate[1] /\ rate[1] <= rate[2]
        /\ Misclassified(results, expected) = {} => rate = <<0, 1>>
        /\ Misclassified(results, expected) = 1..Len(results) => rate = <<1, 1>>
        /\ \A f \in [1..Len(results) -> {S10, S11}] :
              DistinctKeys(WithSyndromes(results, f)) =>
                  CalculateLogicalErrorRate(WithSyndromes(results, f), expected) = rate

C4_Witness ==
    /\ WellFormed(results)
    /\ Len(results) = 2
    /\ results[1][1] = <<"0", "1", " ", "0", "0", "0">>
    /\ expected = "0"
    /\ rate = <<1, 3>>

\* C5: for the empty counts mapping and for any mapping whose counts sum to 0,
\* the rate returned is 0, for either expected value.
C5_ZeroWithoutShots ==
    (rate # <<>> /\ SumIdx(results, 1..Len(results), Len(results)) = 0) =>
        rate = <<0, 1>>

C5_Witness ==
    /\ Len(results) = 2
    /\ results[1][2] = 0 /\ results[2][2] = 0
    /\ expected = "1"
    /\ rate = <<0, 1>>

\* C6: the rate returned is the rate of every reordering of the mapping's items.
C6_OrderIndependent ==
    rate # <<>> =>
        \A p \in Permutations(1..Len(results)) :
            CalculateLogicalErrorRate([k \in 1..Len(results) |-> results[p[k]]], expected)
                = rate

C6_Witness ==
    /\ Len(results) = 2
    /\ results[1][2] = 1 /\ results[2][2] = 2
    /\ Misclassified(results, expected) = {1}
    /\ rate = <<1, 3>>

\* whether s is an initial segment of t
IsPrefix(s, t) == Len(s) <= Len(t) /\ \A k \in 1..Len(s) : s[k] = t[k]

FixedOrder == <<<<>>, <<0>>, <<1>>, <<2>>>>

FixedLabels == <<"no_error", "error_qubit_0", "error_qubit_1", "error_qubit_2">>

\* r is the rate of the counts, with expected = '0'
IsRateForZero(r, counts) ==
    IF SumIdx(counts, 1..Len(counts), Len(counts)) = 0
    THEN r = <<0, 1>>
    ELSE IsErrorFraction(r, counts, "0")

C9_EncodingYieldsCodeword ==
    (call.fn = "create_full_qec_circuit" /\ call.code = "ThreeQubitCode") =>
        \A b \in Branches(call.initial_state) :
            LET st == Exec(UpToBarrier(built.instrs), ZeroState, b)
            IN  /\ st.q[QLogical(0)] = b
                /\ DataRegister(st) = <<b, b, b>>

\* the data qubits a scenario's correction has to flip
InjectedSet(error_qubit) == IF error_qubit = <<>> THEN {} ELSE {error_qubit[1]}

\* C10: in every benchmark scenario and on every branch, the conditional
\* correction of the circuit built by create_full_qec_circuit flips exactly the
\* data qubit the error was injected on (none without an error), and the final
\* register holds the data bits as they were after encoding.
C10_CorrectionMatchesInjectedError ==
    (/\ call.fn = "create_full_qec_circuit"
     /\ call.code = "ThreeQubitCode"
     /\ call.initial_state = "plus"
     /\ call.error_qubit \in {<<>>, <<0>>, <<1>>, <<2>>}) =>
        \A b \in Branches(call.initial_state) :
            LET st == Exec(built.instrs, ZeroState, b)
                enc == Exec(UpToBarrier(built.instrs), ZeroState, b)
            IN  /\ built.exc = "none"
                /\ st.flips = InjectedSet(call.error_qubit)
                /\ FinalRegister(st) = DataRegister(enc)

====
